---- MODULE Spec2Model ----
(***************************************************************************)
(* The 7z streaming extraction engine of comix_tensors                     *)
(* (src/comix_tensors/src/comics/archive/seven_zip/mod.rs).                *)
(*                                                                         *)
(* SevenZipArchive(fd) hands out lazily started streams.  The first poll   *)
(* of a stream duplicates the descriptor, binds it to a FILE, builds the   *)
(* archive index (ArchiveData::new / init), wraps it as OpenedArchive and  *)
(* turns it into an ArchiveIterator; every poll then forwards one          *)
(* ArchiveIterator::next().  Dropping the stream drops the iterator and    *)
(* with it ArchiveData, whose Drop is the session teardown.                *)
(*                                                                         *)
(* Results of the native calls (dup, fdopen, the allocators, SzArEx_Open,  *)
(* SzArEx_Extract, fclose) are inputs of the actions.  Streams of one      *)
(* SevenZipArchive own disjoint sessions; they are modelled one after the  *)
(* other, any number of them, over one descriptor table.                   *)
(***************************************************************************)
EXTENDS Integers, Sequences, FiniteSets, TLC

\* ------------------------------------------------------------------ bounds
\* Largest number of entries of the archive behind the descriptor.
MaxFiles == 3
\* Number of descriptors the process can hold besides the caller's.
MaxFds == 2
\* The addresses the allocator hands out.
MaxAddr == 6

\* ------------------------------------------------------- program constants
\* block_index before the first extraction (OpenedArchive::from): 0xFFFFFFFF,
\* written here as the same 32 bits read signed, (UInt32)-1.  It is also the
\* folder index the native index gives an entry without data.
SentinelBlock == -1
\* mem::size_of_val(&self.archive.temp): the size of a pointer, which
\* read_file_name multiplies the name length with.
PtrSize == 8

\* --------------------------------------------------------- the archive
\* UTF-16 code units, by class: a BMP scalar, a high and a low surrogate.
Units == {"a", "hi", "lo"}

\* The entries an archive is made of.  Each carries what the native index
\* stores for it: the directory flag, the name as UTF-16 code units, the
\* folder (solid block) holding its bytes (SentinelBlock: none) and the bytes.
EntryKinds ==
  { [dir |-> TRUE,  name |-> <<"a">>,        folder |-> SentinelBlock, data |-> <<>>],
    [dir |-> FALSE, name |-> <<"a">>,        folder |-> 0,             data |-> <<1>>],
    [dir |-> FALSE, name |-> <<"hi", "lo">>, folder |-> 1,             data |-> <<2>>],
    [dir |-> FALSE, name |-> <<"a", "a">>,   folder |-> SentinelBlock, data |-> <<>>],
    [dir |-> FALSE, name |-> <<"lo">>,       folder |-> 0,             data |-> <<3>>] }

SeqsUpTo(S, n) == UNION { [1..k -> S] : k \in 0..n }

\* Entries of one folder are adjacent in a 7z index, folders in order.
WellFormed(db) ==
  \A i, j \in 1..Len(db) :
    (i < j /\ db[i].folder # SentinelBlock /\ db[j].folder # SentinelBlock)
      => db[i].folder <= db[j].folder

Archives == { db \in SeqsUpTo(EntryKinds, MaxFiles) : WellFormed(db) }

\* db.NumFiles
files_count(db) == Len(db)

\* A directory test that looks at the entry's data instead of the flag.
is_dir_by_folder(db, pos) == db[pos + 1].folder = SentinelBlock

\* db.is_dir(pos)
is_dir(db, pos) == db[pos + 1].dir

\* SzArEx_GetFileNameUtf16(db, pos, NULL): the length in code units,
\* the terminating zero included.
GetFileNameLen(db, pos) == Len(db[pos + 1].name) + 1

RECURSIVE FolderBytesFrom(_, _, _)
FolderBytesFrom(db, f, i) ==
  IF i > Len(db) THEN <<>>
  ELSE (IF db[i].folder = f THEN db[i].data ELSE <<>>) \o FolderBytesFrom(db, f, i + 1)

\* The unpacked bytes of folder f: its entries' bytes in index order.
FolderBytes(db, f) == FolderBytesFrom(db, f, 1)

RECURSIVE OffsetFrom(_, _, _)
OffsetFrom(db, pos, i) ==
  IF i > pos THEN 0
  ELSE (IF db[i].folder = db[pos + 1].folder THEN Len(db[i].data) ELSE 0)
       + OffsetFrom(db, pos, i + 1)

\* Offset of entry pos inside its folder's unpacked bytes.
EntryOffset(db, pos) == OffsetFrom(db, pos, 1)

\* ----------------------------------------------------- String::from_utf16
RECURSIVE DecodeUtf16(_)
\* The scalars of a code unit sequence; <<"invalid">> marks an unpaired
\* surrogate anywhere in it.  A surrogate pair decodes to one scalar "S".
DecodeUtf16(u) ==
  IF u = <<>> THEN <<>>
  ELSE IF u[1] = "a" THEN
         LET r == DecodeUtf16(Tail(u)) IN
         IF r = <<"invalid">> THEN r ELSE <<"a">> \o r
  ELSE IF u[1] = "hi" /\ Len(u) >= 2 /\ u[2] = "lo" THEN
         LET r == DecodeUtf16(Tail(Tail(u))) IN
         IF r = <<"invalid">> THEN r ELSE <<"S">> \o r
  ELSE <<"invalid">>

from_utf16(u) ==
  LET r == DecodeUtf16(u) IN
  [ok |-> r # <<"invalid">>, str |-> IF r = <<"invalid">> THEN <<>> ELSE r]

\* ------------------------------------------------------------ ArchiveData
\* Results fclose can return: 0, or EOF when closing fails.
CloseResults == {0, -1}

\* open_archive: fdopen on the duplicate; a NULL FILE is the open error.
open_archive(fdValid, fdopenOk) ==
  LET file == fdValid /\ fdopenOk IN
  [ok |-> file, err |-> IF file THEN "none" ELSE "OpenError", calls |-> <<"fdopen">>]

\* ArchiveData::new: the FILE bound, no input buffer, a default index.
ArchiveData_new(fdValid, fdopenOk) ==
  LET f == open_archive(fdValid, fdopenOk) IN
  [ok |-> f.ok, err |-> f.err, calls |-> f.calls,
   data |-> [file |-> IF f.ok THEN "open" ELSE "none", buf |-> "null", db |-> "default"]]

\* ArchiveData::init: allocate the input buffer, then SzArEx_Open.
ArchiveData_init(ad, bufOk, szOk) ==
  IF ~bufOk
    THEN [ok |-> FALSE, err |-> "SZ_ERROR_MEM", data |-> ad,
          calls |-> <<"alloc_buf">>]
  ELSE IF ~szOk
    THEN [ok |-> FALSE, err |-> "SZ_ERROR_ARCHIVE",
          data |-> [ad EXCEPT !.buf = "live", !.db = "failed"],
          calls |-> <<"alloc_buf", "SzArEx_Init", "SzArEx_Open">>]
  ELSE [ok |-> TRUE, err |-> "none",
        data |-> [ad EXCEPT !.buf = "live", !.db = "open"],
        calls |-> <<"alloc_buf", "SzArEx_Init", "SzArEx_Open">>]

\* impl Drop for ArchiveData: fclose, SzArEx_Free, free of the input buffer,
\* and a panic when fclose did not return 0.
ArchiveData_drop(ad, closeRes) ==
  [data  |-> [ad EXCEPT !.file = "closed", !.db = "freed", !.buf = "freed"],
   calls |-> <<"fclose", "SzArEx_Free", "free_buf">>,
   panic |-> closeRes # 0]

NoData == [file |-> "none", buf |-> "null", db |-> "default"]

\* ---------------------------------------------------------- OpenedArchive
\* A session that starts as if folder 0 were decoded already.
OpenedArchive_from_zero(ad) ==
  [archive_data      |-> ad,
   iter_readed_count |-> 0,
   temp_size         |-> 0,
   temp              |-> "null",
   temp_alloc        |-> 0,
   block_index       |-> 0,
   out_buffer        |-> "null",
   out_bytes         |-> <<>>,
   out_buffer_size   |-> 0]

\* impl From<ArchiveData> for OpenedArchive
OpenedArchive_from(ad) ==
  [archive_data      |-> ad,
   iter_readed_count |-> 0,
   temp_size         |-> 0,
   temp              |-> "null",
   temp_alloc        |-> 0,
   block_index       |-> SentinelBlock,
   out_buffer        |-> "null",
   out_bytes         |-> <<>>,
   out_buffer_size   |-> 0]

\* impl IntoIterator for OpenedArchive
into_iter(oa) == [archive |-> oa, current_pos |-> 0]

NoIter == into_iter(OpenedArchive_from(NoData))

\* A descriptor that is not open.
NoFd == -1

\* dup(fd): the lowest free descriptor, or -1 when the call fails or the
\* table is full.
dup(fds, dupOk) ==
  LET free == { n \in 0..MaxFds : n \notin fds } IN
  IF dupOk /\ free # {}
    THEN CHOOSE n \in free : \A m \in free : n <= m
    ELSE NoFd

\* The closure of SevenZipArchive::open: dup, ArchiveData::new, init, from.
\* An ArchiveData that init rejects is dropped on the way out; a duplicate
\* that fdopen rejects is not closed.  fd is the duplicate, fds the open
\* descriptors afterwards.
OpenSession(fds, dupOk, fdopenOk, bufOk, szOk, closeRes) ==
  LET fd == dup(fds, dupOk)
      n  == ArchiveData_new(fd # NoFd, fdopenOk)
      f1 == IF fd # NoFd THEN fds \cup {fd} ELSE fds
  IN
  IF ~n.ok
    THEN [ok |-> FALSE, err |-> n.err, archive |-> OpenedArchive_from(NoData),
          fd |-> fd, fds |-> f1,
          calls |-> <<"dup">> \o n.calls, torn |-> 0, panic |-> FALSE]
  ELSE
    LET i == ArchiveData_init(n.data, bufOk, szOk) IN
    IF ~i.ok
      THEN LET d == ArchiveData_drop(i.data, closeRes) IN
           [ok |-> FALSE, err |-> i.err, archive |-> OpenedArchive_from(NoData),
            fd |-> fd, fds |-> f1 \ {fd},
            calls |-> <<"dup">> \o n.calls \o i.calls \o d.calls,
            torn |-> 1, panic |-> d.panic]
      ELSE [ok |-> TRUE, err |-> "none", archive |-> OpenedArchive_from(i.data),
            fd |-> fd, fds |-> f1,
            calls |-> <<"dup">> \o n.calls \o i.calls, torn |-> 0, panic |-> FALSE]

\* -------------------------------------------------------- ArchiveIterator
\* What a read through a null name buffer can give: a fault, or whatever
\* code units lie there.
NullReads == { [crash |-> TRUE, units |-> <<>>],
               [crash |-> FALSE, units |-> <<"a">>],
               [crash |-> FALSE, units |-> <<"lo">>] }

\* lzma::SzArEx_Extract on the three cache fields of OpenedArchive.  An
\* entry without a folder frees the buffer and succeeds; an entry of the
\* cached folder is served from the buffer; otherwise the buffer is
\* replaced and the folder decoded, which is where the call can fail.
SzArEx_Extract(db, pos, oa, decodeOk) ==
  LET f    == db[pos + 1].folder
      size == Len(db[pos + 1].data)
      off  == EntryOffset(db, pos)
  IN
  IF f = SentinelBlock
    THEN [res |-> "SZ_OK", offset |-> 0, size |-> 0,
          archive |-> [oa EXCEPT !.block_index = f, !.out_buffer = "null",
                                 !.out_bytes = <<>>, !.out_buffer_size = 0]]
  ELSE IF oa.out_buffer = "null" \/ oa.block_index # f
    THEN IF decodeOk
           THEN [res |-> "SZ_OK", offset |-> off, size |-> size,
                 archive |-> [oa EXCEPT !.block_index = f, !.out_buffer = "live",
                                        !.out_bytes = FolderBytes(db, f),
                                        !.out_buffer_size = Len(FolderBytes(db, f))]]
           ELSE [res |-> "SZ_ERROR_MEM", offset |-> 0, size |-> 0,
                 archive |-> [oa EXCEPT !.block_index = f, !.out_buffer = "null",
                                        !.out_bytes = <<>>,
                                        !.out_buffer_size = Len(FolderBytes(db, f))]]
  ELSE [res |-> "SZ_OK", offset |-> off, size |-> size, archive |-> oa]

\* A view of the scratch buffer: len bytes from offset off.  NoView stands
\* where there is none.
NoView == [borrowed |-> FALSE, off |-> 0, len |-> 0]

\* The bytes under a view of the scratch buffer of oa now: those of the
\* buffer, or -1 for each byte of a buffer that is gone or too short.
Deref(view, oa) ==
  IF oa.out_buffer = "live" /\ view.off + view.len <= Len(oa.out_bytes)
    THEN SubSeq(oa.out_bytes, view.off + 1, view.off + view.len)
    ELSE [i \in 1..view.len |-> -1]

\* A content that keeps the view instead of copying the bytes under it.
to_owned_borrow(view, oa) == [some |-> TRUE, bytes |-> <<>>, view |-> view]

\* |c| c.to_owned(): the bytes under the view, copied into a Vec.
to_owned(view, oa) == [some |-> TRUE, bytes |-> Deref(view, oa), view |-> NoView]

\* Option::None as the content of a record.
NoContent == [some |-> FALSE, bytes |-> <<>>, view |-> NoView]

\* The bytes a content holds when it is read with the session in state oa.
ContentBytes(content, oa) ==
  IF content.view.borrowed THEN Deref(content.view, oa) ELSE content.bytes

\* ArchiveIterator::read_file: the extraction and the slice of the buffer.
read_file(it, db, pos, decodeOk) ==
  LET x == SzArEx_Extract(db, pos, it.archive, decodeOk) IN
  [ok      |-> x.res = "SZ_OK",
   err     |-> IF x.res = "SZ_OK" THEN "none" ELSE "ExtractError",
   view    |-> [borrowed |-> TRUE, off |-> x.offset, len |-> x.size],
   it      |-> [it EXCEPT !.archive = x.archive],
   calls   |-> <<"SzArEx_Extract">>]

\* ArchiveIterator::read_file_name: the length query, the growth of the
\* name buffer, the copy into it and String::from_utf16.
\* A test that replaces the name buffer whenever the length differs.
NeedsGrow_differs(len, size) == len # size

\* if len > self.archive.temp_size
NeedsGrow(len, size) == len > size

\* ArchiveIterator::read_file_name
read_file_name(it, db, pos, allocOk, nullRead) ==
  LET len  == GetFileNameLen(db, pos)
      oa   == it.archive
      grow == NeedsGrow(len, oa.temp_size)
      oa1  == IF grow
                THEN [oa EXCEPT !.temp_size = len,
                                !.temp = IF allocOk THEN "live" ELSE "null",
                                !.temp_alloc = IF allocOk THEN len * PtrSize ELSE 0]
                ELSE oa
      it1  == [it EXCEPT !.archive = oa1]
      c0   == <<"SzArEx_GetFileNameUtf16">>
      c1   == IF grow THEN c0 \o <<"SzFree", "SzAlloc">> ELSE c0
  IN
  IF grow /\ ~allocOk
    THEN [ok |-> FALSE, err |-> "AllocError", name |-> <<>>, it |-> it1,
          calls |-> c1, crash |-> FALSE]
  ELSE
    LET units == IF oa1.temp = "null" THEN nullRead.units ELSE db[pos + 1].name
        s     == from_utf16(units)
        c2    == c1 \o <<"SzArEx_GetFileNameUtf16">>
    IN
    IF oa1.temp = "null" /\ nullRead.crash
      THEN [ok |-> FALSE, err |-> "fault", name |-> <<>>, it |-> it1,
            calls |-> c2, crash |-> TRUE]
    ELSE IF ~s.ok
      THEN [ok |-> FALSE, err |-> "EncodingError", name |-> <<>>, it |-> it1,
            calls |-> c2, crash |-> FALSE]
    ELSE [ok |-> TRUE, err |-> "none", name |-> s.str, it |-> it1,
          calls |-> c2, crash |-> FALSE]

NoFile == [pos |-> 0, name |-> <<>>, is_dir |-> FALSE, content |-> NoContent]

\* A record that keeps the extracted bytes of a directory too.
ArchiveFile_some(pos, name, dir, owned) ==
  [pos     |-> pos,
   name    |-> name,
   is_dir  |-> dir,
   content |-> owned]

\* The record ArchiveIterator::next builds from what it resolved; owned is
\* the copy of the extracted bytes.
ArchiveFile(pos, name, dir, owned) ==
  [pos     |-> pos,
   name    |-> name,
   is_dir  |-> dir,
   content |-> IF dir THEN NoContent ELSE owned]

\* A cursor that steps over the entry after the delivered one.
Advance_two(pos) == pos + 2

\* A cursor that stays where it is.
Advance_stuck(pos) == pos

\* self.current_pos += 1
Advance(pos) == pos + 1

\* A next that steps over the entry it failed on.
next_skip_failed(it, db, allocOk, nullRead, decodeOk) ==
  IF it.current_pos = files_count(db)
    THEN [t |-> "end", file |-> NoFile, err |-> "none", it |-> it,
          calls |-> <<>>, crash |-> FALSE]
  ELSE
    LET pos == it.current_pos
        dir == is_dir(db, pos)
        n   == read_file_name(it, db, pos, allocOk, nullRead)
    IN
    IF ~n.ok
      THEN [t |-> "err", file |-> NoFile, err |-> n.err,
            it |-> [n.it EXCEPT !.current_pos = Advance(pos)],
            calls |-> n.calls, crash |-> n.crash]
    ELSE
      LET c == read_file(n.it, db, pos, decodeOk) IN
      IF ~c.ok
        THEN [t |-> "err", file |-> NoFile, err |-> c.err,
              it |-> [c.it EXCEPT !.current_pos = Advance(pos)],
              calls |-> n.calls \o c.calls, crash |-> FALSE]
      ELSE [t |-> "item",
            file |-> ArchiveFile(pos, n.name, dir, to_owned(c.view, c.it.archive)),
            err |-> "none",
            it |-> [c.it EXCEPT !.current_pos = Advance(pos)],
            calls |-> n.calls \o c.calls, crash |-> FALSE]

\* impl Iterator for ArchiveIterator: next.  t is "end" for None, "item"
\* for Some(Ok(file)), "err" for Some(Err(e)).
next(it, db, allocOk, nullRead, decodeOk) ==
  IF it.current_pos = files_count(db)
    THEN [t |-> "end", file |-> NoFile, err |-> "none", it |-> it,
          calls |-> <<>>, crash |-> FALSE]
  ELSE
    LET pos == it.current_pos
        dir == is_dir(db, pos)
        n   == read_file_name(it, db, pos, allocOk, nullRead)
    IN
    IF ~n.ok
      THEN [t |-> "err", file |-> NoFile, err |-> n.err, it |-> n.it,
            calls |-> n.calls, crash |-> n.crash]
    ELSE
      LET c == read_file(n.it, db, pos, decodeOk) IN
      IF ~c.ok
        THEN [t |-> "err", file |-> NoFile, err |-> c.err, it |-> c.it,
              calls |-> n.calls \o c.calls, crash |-> FALSE]
      ELSE [t |-> "item",
            file |-> ArchiveFile(pos, n.name, dir, to_owned(c.view, c.it.archive)),
            err |-> "none",
            it |-> [c.it EXCEPT !.current_pos = Advance(pos)],
            calls |-> n.calls \o c.calls, crash |-> FALSE]

\* ---------------------------------------------------------------- state
VARIABLES
  archive,      \* the index of the archive behind the descriptor
  origFd,       \* the caller's descriptor, held by SevenZipArchive
  openFds,      \* the descriptors that are open in the process
  phase,        \* of the current stream: "none", "Future", "Stream", "Eof",
                \* "Done" (the states of its flatten_stream), "dropped", "crashed"
  pulled,       \* the current stream has been polled
  pulls,        \* how often it has been polled, counted up to PullCap
  iter,         \* the ArchiveIterator of the current stream
  dupFd,        \* the duplicate the current stream made, NoFd if none
  opened,       \* open() of the current stream returned Ok
  torn,         \* how often Drop for ArchiveData ran for the current stream
  last,         \* what the last poll returned
  records,      \* the records the current stream delivered, in order
  errPos,       \* current_pos at the first error delivered, -1 before
  recAfterErr,  \* a record was delivered after an error
  panicked,     \* a panic was raised
  calls,        \* the native calls of the last operation, in order
  sess,         \* sessions that are open side by side, by slot
  heap          \* the addresses that are allocated

vars == <<archive, origFd, openFds, phase, pulled, pulls, iter, dupFd, opened, torn, last,
          records, errPos, recAfterErr, panicked, calls, sess, heap>>

\* Two streams of one SevenZipArchive and the two threads that drive them.
Slots == {1, 2}
Threads == {1, 2}

\* An allocated address; 0 is the null pointer.
Addr == 1..MaxAddr

\* A slot without a session.  ctx is the native context of ArchiveData
\* (the FILE of archive_stream with look_stream.buf and the index db hangs
\* on), temp and out are the name and the scratch buffer; holder is the
\* thread that owns the stream, inCall the threads inside next() on it.
NoSess == [st |-> "none", it |-> NoIter, ctx |-> 0, temp |-> 0, out |-> 0,
           holder |-> 1, inCall |-> {}]

svars == <<sess, heap>>

\* The address an allocation returns when the addresses in h are taken:
\* the lowest free one, so that a freed address is handed out again at
\* once, and 0, the null pointer, when none is free.
LowestFree(h) ==
  LET free == Addr \ h IN
  IF free = {} THEN 0 ELSE CHOOSE a \in free : \A b \in free : a <= b

NoOut == [t |-> "none", file |-> NoFile, err |-> "none"]

\* The poll counter stops one above the largest entry count: no cursor
\* gets that far, and the polls themselves go on.
PullCap == MaxFiles + 1

CountPoll(n) == IF n < PullCap THEN n + 1 ELSE n

\* SevenZipArchive::new(fd): the descriptor is stored, nothing else.
Init ==
  /\ archive \in Archives
  /\ origFd = 0
  /\ openFds = {origFd}
  /\ phase = "none"
  /\ pulled = FALSE
  /\ pulls = 0
  /\ iter = NoIter
  /\ dupFd = NoFd
  /\ opened = FALSE
  /\ torn = 0
  /\ last = NoOut
  /\ records = <<>>
  /\ errPos = -1
  /\ recAfterErr = FALSE
  /\ panicked = FALSE
  /\ calls = <<>>
  /\ sess = [s \in Slots |-> NoSess]
  /\ heap = {}

\* A stream_files that duplicates the descriptor when the stream is built.
stream_files_eager == [state |-> "Future", calls |-> <<"dup">>]

\* SevenZipArchive::stream_files / files: open().map(iter_result)
\* .flatten_stream() builds the stream around the lazy future; it starts in
\* the state Future and has called nothing.
stream_files == [state |-> "Future", calls |-> <<>>]

StreamFiles ==
  /\ phase \in {"none", "dropped"}
  /\ phase' = stream_files.state
  /\ calls' = stream_files.calls
  /\ pulled' = FALSE
  /\ pulls' = 0
  /\ iter' = NoIter
  /\ dupFd' = NoFd
  /\ opened' = FALSE
  /\ torn' = 0
  /\ last' = NoOut
  /\ records' = <<>>
  /\ errPos' = -1
  /\ recAfterErr' = FALSE
  /\ UNCHANGED <<archive, origFd, openFds, panicked>>
  /\ UNCHANGED svars

\* A forwarding that resolves the entry after the delivered one ahead of
\* the request for it.
Forward_prefetch(r, pre) ==
  LET ahead == next(r.it, archive, TRUE, [crash |-> TRUE, units |-> <<>>], TRUE) IN
  /\ iter' = IF r.t = "item" THEN ahead.it ELSE r.it
  /\ last' = [t |-> r.t, file |-> r.file, err |-> r.err]
  /\ records' = IF r.t = "item" THEN Append(records, r.file) ELSE records
  /\ errPos' = IF r.t = "err" /\ errPos = -1 THEN r.it.current_pos ELSE errPos
  /\ recAfterErr' = (recAfterErr \/ (r.t = "item" /\ errPos # -1))
  /\ calls' = pre \o r.calls \o (IF r.t = "item" THEN ahead.calls ELSE <<>>)
  /\ phase' = IF r.crash THEN "crashed" ELSE "Stream"

\* stream::iter_result over the iterator: one next() per poll, its result
\* forwarded as it is; r is the result of next, pre the calls made before it.
Forward(r, pre) ==
  /\ iter' = r.it
  /\ last' = [t |-> r.t, file |-> r.file, err |-> r.err]
  /\ records' = IF r.t = "item" THEN Append(records, r.file) ELSE records
  /\ errPos' = IF r.t = "err" /\ errPos = -1 THEN r.it.current_pos ELSE errPos
  /\ recAfterErr' = (recAfterErr \/ (r.t = "item" /\ errPos # -1))
  /\ calls' = pre \o r.calls
  /\ phase' = IF r.crash THEN "crashed" ELSE "Stream"

\* The first poll: flatten_stream polls the lazy future, which runs the
\* closure of open(); on Ok it moves to Stream and polls that in the same
\* call, on Err it moves to Eof and returns the error.  When the drop of a
\* rejected ArchiveData panics, the poll returns nothing: the panic unwinds
\* through it and takes the stream along.
PollFuture ==
  /\ phase = "Future"
  /\ pulled' = TRUE
  /\ pulls' = CountPoll(pulls)
  /\ \E dupOk, fdopenOk, bufOk, szOk \in BOOLEAN, closeRes \in CloseResults :
       LET o == OpenSession(openFds, dupOk, fdopenOk, bufOk, szOk, closeRes) IN
       /\ dupFd' = o.fd
       /\ openFds' = o.fds
       /\ torn' = torn + o.torn
       /\ opened' = o.ok
       /\ panicked' = (panicked \/ o.panic)
       /\ IF o.ok
            THEN \E decodeFail, allocFail \in BOOLEAN, nullRead \in NullReads :
                   Forward(next(into_iter(o.archive), archive, ~allocFail,
                                nullRead, ~decodeFail), o.calls)
            ELSE /\ phase' = IF o.panic THEN "dropped" ELSE "Eof"
                 /\ last' = [t |-> IF o.panic THEN "panic" ELSE "err",
                             file |-> NoFile, err |-> o.err]
                 /\ errPos' = IF o.panic THEN errPos ELSE 0
                 /\ calls' = o.calls
                 /\ UNCHANGED <<iter, records, recAfterErr>>
  /\ UNCHANGED <<archive, origFd>>
  /\ UNCHANGED svars

\* A later poll in the state Stream.
PollStream ==
  /\ phase = "Stream"
  /\ \E decodeFail, allocFail \in BOOLEAN, nullRead \in NullReads :
       Forward(next(iter, archive, ~allocFail, nullRead, ~decodeFail), <<>>)
  /\ pulls' = CountPoll(pulls)
  /\ UNCHANGED <<archive, origFd, openFds, pulled, dupFd, opened, torn, panicked>>
  /\ UNCHANGED svars

\* A poll in the state Eof, after the open error: the end of the stream.
PollEof ==
  /\ phase = "Eof"
  /\ phase' = "Done"
  /\ last' = [t |-> "end", file |-> NoFile, err |-> "none"]
  /\ calls' = <<>>
  /\ pulls' = CountPoll(pulls)
  /\ UNCHANGED <<archive, origFd, openFds, pulled, iter, dupFd, opened, torn,
                 records, errPos, recAfterErr, panicked>>
  /\ UNCHANGED svars

\* A drop that forgets the iterator.
StreamDrop_forget(st, it, closeRes) ==
  [it |-> it, torn |-> 0, calls |-> <<>>, panic |-> FALSE]

\* What dropping the stream releases: the iterator it holds in the state
\* Stream, whose only Drop is that of ArchiveData; nothing in the others.
StreamDrop(st, it, closeRes) ==
  IF st = "Stream"
    THEN LET d == ArchiveData_drop(it.archive.archive_data, closeRes) IN
         [it |-> [it EXCEPT !.archive.archive_data = d.data], torn |-> 1,
          calls |-> d.calls, panic |-> d.panic]
    ELSE [it |-> it, torn |-> 0, calls |-> <<>>, panic |-> FALSE]

\* The consumer drops the stream: at the end, after an error, or early.
DropStream ==
  /\ phase \in {"Future", "Stream", "Eof", "Done"}
  /\ \E closeRes \in CloseResults :
       LET d == StreamDrop(phase, iter, closeRes) IN
       /\ iter' = d.it
       /\ torn' = torn + d.torn
       /\ openFds' = IF d.torn > 0 THEN openFds \ {dupFd} ELSE openFds
       /\ calls' = d.calls
       /\ panicked' = (panicked \/ d.panic)
  /\ phase' = "dropped"
  /\ UNCHANGED <<archive, origFd, pulled, pulls, dupFd, opened, last, records,
                 errPos, recAfterErr>>
  /\ UNCHANGED svars

Next ==
  \/ StreamFiles
  \/ PollFuture
  \/ PollStream
  \/ PollEof
  \/ DropStream

Spec == Init /\ [][Next]_vars

\* ------------------------------------------------- sessions side by side
\* SevenZipArchive is Copy and stream_files takes &self, so one archive
\* can have several streams at a time, each with the session its own
\* open() made, and OpenedArchive is Send, so a stream can change threads.
\* The archive is one with two files in two folders and names of two
\* lengths, so that both buffers of a session are replaced under way.
SessionArchive ==
  <<[dir |-> FALSE, name |-> <<"a">>,        folder |-> 0, data |-> <<1>>],
    [dir |-> FALSE, name |-> <<"hi", "lo">>, folder |-> 1, data |-> <<2>>]>>

InitSessions == Init /\ archive = SessionArchive

mainVars == <<archive, origFd, openFds, phase, pulled, pulls, iter, dupFd,
              opened, torn, last, records, errPos, recAfterErr, panicked, calls>>

\* A session that takes over the pointers of the one beside it.
SessionPointers_clone(ctxA, other) ==
  IF other.st = "open"
    THEN [ctx |-> other.ctx, temp |-> other.temp, out |-> other.out]
    ELSE [ctx |-> ctxA, temp |-> 0, out |-> 0]

\* The pointers of a session open() has just made: the native context
\* ArchiveData::new and init built is its own, the name and the scratch
\* buffer are null.  other is the session in the other slot.
SessionPointers(ctxA, other) == [ctx |-> ctxA, temp |-> 0, out |-> 0]

\* The first poll of a stream on thread t runs open(): the context is
\* allocated when fdopen and the allocation of look_stream.buf succeed.  A
\* session that did not open has released what it had.
SessOpen(s, t) ==
  /\ sess[s].st = "none"
  /\ \E allocOk, szOk \in BOOLEAN :
       LET aC == LowestFree(heap)
           n  == ArchiveData_new(TRUE, allocOk /\ aC # 0)
           i  == ArchiveData_init(n.data, allocOk /\ aC # 0, szOk)
       IN
       IF n.ok /\ i.ok
         THEN LET p == SessionPointers(aC, sess[3 - s]) IN
              /\ sess' = [sess EXCEPT ![s] =
                    [st |-> "open", it |-> into_iter(OpenedArchive_from(i.data)),
                     ctx |-> p.ctx, temp |-> p.temp, out |-> p.out,
                     holder |-> t, inCall |-> {}]]
              /\ heap' = heap \cup {aC}
         ELSE /\ sess' = [sess EXCEPT ![s].st = "dropped"]
              /\ heap' = heap
  /\ UNCHANGED mainVars

\* fn next(&mut self): the thread that holds the stream may enter, and
\* only while no call on it is under way.
MayEnter(se, t) == se.holder = t /\ se.inCall = {}

\* A thread enters next() on its stream.
PollBegin(s, t) ==
  /\ sess[s].st = "open"
  /\ MayEnter(sess[s], t)
  /\ sess' = [sess EXCEPT ![s].inCall = @ \cup {t}]
  /\ UNCHANGED <<heap, mainVars>>

\* next() returns.  Name resolution, where it replaces the name buffer,
\* frees the old one and allocates the new; extraction, where it replaces
\* the scratch buffer, frees the old one and allocates the new.  An
\* allocation fails when told to or when no address is free.  A fault
\* ends the process and every session in it.
PollEnd(s, t) ==
  /\ t \in sess[s].inCall
  /\ \E allocFail, decodeFail \in BOOLEAN, nullRead \in NullReads :
       LET se == sess[s]
           aT == LowestFree(heap \ {se.temp})
       IN
       \E r \in {next(se.it, archive, ~allocFail /\ aT # 0, nullRead, ~decodeFail)} :
         LET newT  == \E i \in DOMAIN r.calls : r.calls[i] = "SzAlloc"
             liveT == r.it.archive.temp = "live"
             newO  == <<r.it.archive.block_index, r.it.archive.out_buffer,
                        r.it.archive.out_bytes, r.it.archive.out_buffer_size>>
                        # <<se.it.archive.block_index, se.it.archive.out_buffer,
                            se.it.archive.out_bytes, se.it.archive.out_buffer_size>>
             liveO == r.it.archive.out_buffer = "live"
         IN
         \E h1 \in {IF newT THEN (heap \ {se.temp}) \cup (IF liveT THEN {aT} ELSE {})
                            ELSE heap} :
           LET aO == LowestFree(h1 \ {se.out}) IN
           /\ (newO /\ liveO) => aO # 0
           /\ IF r.crash
                THEN /\ sess' = [x \in Slots |-> [NoSess EXCEPT !.st = "crashed"]]
                     /\ heap' = {}
                ELSE /\ sess' = [sess EXCEPT ![s] =
                           [se EXCEPT !.it = r.it,
                                      !.temp = IF ~newT THEN @
                                               ELSE IF liveT THEN aT ELSE 0,
                                      !.out = IF ~newO THEN @
                                              ELSE IF liveO THEN aO ELSE 0,
                                      !.inCall = @ \ {t}]]
                     /\ heap' = IF newO
                                  THEN (h1 \ {se.out}) \cup (IF liveO THEN {aO} ELSE {})
                                  ELSE h1
  /\ UNCHANGED mainVars

\* unsafe impl Send: a stream that is not inside a call is handed to the
\* other thread.
Move(s, t) ==
  /\ sess[s].st = "open"
  /\ sess[s].inCall = {}
  /\ sess[s].holder # t
  /\ sess' = [sess EXCEPT ![s].holder = t]
  /\ UNCHANGED <<heap, mainVars>>

\* The holder drops its stream: Drop for ArchiveData releases the native
\* context; the name and the scratch buffer stay allocated.
SessDrop(s) ==
  /\ sess[s].st = "open"
  /\ sess[s].inCall = {}
  /\ sess' = [sess EXCEPT ![s] = [NoSess EXCEPT !.st = "dropped"]]
  /\ heap' = heap \ {sess[s].ctx}
  /\ UNCHANGED mainVars

NextSessions ==
  \/ \E s \in Slots, t \in Threads : SessOpen(s, t)
  \/ \E s \in Slots, t \in Threads : PollBegin(s, t)
  \/ \E s \in Slots, t \in Threads : PollEnd(s, t)
  \/ \E s \in Slots, t \in Threads : Move(s, t)
  \/ \E s \in Slots : SessDrop(s)

SpecSessions == InitSessions /\ [][NextSessions]_vars

\* ================================================================ claims
DecoderCalls == {"SzArEx_Extract", "SzArEx_GetFileNameUtf16"}

\* C1: the records a stream of an opened archive delivers are those of the
\* positions 0, 1, 2, ... in this order, none skipped or repeated; there are
\* never more than entry_count() of them; the stream ends only after all
\* entry_count() of them, and a poll with all of them delivered ends it.
C1_RecordsInOrder ==
  /\ [](/\ \A i \in DOMAIN records : records[i].pos = i - 1
        /\ Len(records) <= files_count(archive)
        /\ (opened /\ phase = "Stream") => Len(records) = iter.current_pos
        /\ (opened /\ last.t = "end") => Len(records) = files_count(archive))
  /\ [][(phase = "Stream" /\ phase' = "Stream" /\ last' # last
          /\ Len(records) = files_count(archive)) => last'.t = "end"]_vars

\* C1 witness: a stream that had no error has delivered every entry of an
\* archive of MaxFiles entries and ended.
C1_Witness ==
  /\ opened /\ last.t = "end" /\ errPos = -1
  /\ Len(records) = MaxFiles

\* C2: every record delivered has content exactly when it is no directory.
C2_ContentIffNotDir ==
  /\ \A i \in DOMAIN records : records[i].content.some = ~records[i].is_dir
  /\ last.t = "item" => last.file.content.some = ~last.file.is_dir

\* C2 witness: a directory without content and a file with (empty) content
\* have both been delivered.
C2_Witness ==
  /\ \E i \in DOMAIN records : records[i].is_dir /\ ~records[i].content.some
  /\ \E i \in DOMAIN records :
       ~records[i].is_dir /\ records[i].content.some /\ records[i].content.bytes = <<>>

\* C3: the record delivered for position p carries pos = p and the
\* directory flag the index has for p, whatever its name and its bytes.
C3_IsDirFromIndex ==
  \A i \in DOMAIN records :
    /\ records[i].pos = i - 1
    /\ i <= Len(archive)
    /\ records[i].is_dir = archive[i].dir

\* C3 witness: two delivered records of the same name, one a directory and
\* one not, and a record that is no directory although it has no bytes.
C3_Witness ==
  /\ \E i, j \in DOMAIN records :
       /\ records[i].name = records[j].name
       /\ records[i].is_dir /\ ~records[j].is_dir
  /\ \E i \in DOMAIN records :
       ~records[i].is_dir /\ records[i].content.bytes = <<>>

\* C4: as long as a stream has not been polled it has duplicated no
\* descriptor, built no session and no iterator and made no native call;
\* creating it and dropping it unpolled leave the descriptor table as it was.
C4_LazyUntilPolled ==
  /\ [](~pulled => /\ dupFd = NoFd
                   /\ ~opened
                   /\ torn = 0
                   /\ iter = NoIter
                   /\ calls = <<>>)
  /\ [][~pulled' => openFds' = openFds]_vars

\* C4 witness: a stream was created and dropped without a poll.
C4_Witness == phase = "dropped" /\ ~pulled /\ dupFd = NoFd

OpenErrors == {"OpenError", "SZ_ERROR_MEM", "SZ_ERROR_ARCHIVE"}

\* C5 (as claimed): when open() fails, the first poll returns an open error,
\* the stream never delivers a record and has no iterator; an iterator only
\* ever sits on a session whose FILE, input buffer and index were all set up.
C5_OpenFailureNoRecords ==
  /\ (pulled /\ ~opened) =>
       /\ records = <<>>
       /\ iter = NoIter
       /\ last.t \in {"err", "end"}
       /\ last.t = "err" => last.err \in OpenErrors
       /\ phase \in {"Eof", "Done", "dropped"}
       /\ phase = "Eof" => last.t = "err"
  /\ iter # NoIter =>
       /\ opened
       /\ iter.archive.archive_data.file \in {"open", "closed"}
       /\ iter.archive.archive_data.buf \in {"live", "freed"}
       /\ iter.archive.archive_data.db \in {"open", "freed"}

\* C6: the teardown of an opened session never runs twice; it has not run
\* while the stream is alive; it has run exactly once when the stream is
\* gone, be it dropped after the end, after an error or before the end; and
\* no extraction or name resolution follows it.
C6_TeardownOnce ==
  /\ [](/\ torn <= 1
        /\ (opened /\ phase = "Stream") => torn = 0
        /\ (opened /\ phase = "dropped") => torn = 1)
  /\ [][(torn >= 1 /\ torn' >= 1)
          => \A i \in DOMAIN calls' : calls'[i] \notin DecoderCalls]_vars

\* C6 witness: the stream was dropped after some but not all records, and
\* the teardown has run once.
C6_Witness ==
  /\ opened /\ phase = "dropped" /\ torn = 1
  /\ Len(records) > 0 /\ Len(records) < files_count(archive)
  /\ errPos = -1

\* C7 (as claimed): within a teardown the index is freed first, then the
\* buffer, and the input stream is closed only after both.
C7_ReleaseOrder ==
  \A i, j \in DOMAIN calls :
    (calls[i] = "fclose" /\ calls[j] \in {"SzArEx_Free", "free_buf"}) => j < i

\* C8 (as claimed): a failure to close the input stream never panics.
C8_CloseFailureNoPanic == ~panicked

\* C9 (as claimed): once the stream has delivered an error it delivers no
\* record any more, so none for a position at or beyond the failing one.
C9_ErrorIsTerminal ==
  /\ ~recAfterErr
  /\ errPos # -1 => \A i \in DOMAIN records : records[i].pos < errPos

\* C10 (as claimed): the caller's descriptor stays open, and when a stream
\* is gone, whatever its outcome, the duplicate it made is closed.
C10_OnlyDuplicateClosed ==
  /\ origFd \in openFds
  /\ phase = "dropped" => openFds = {origFd}

\* C11: the content of a delivered record is a copy of its own: read at any
\* later time, whatever the session has extracted, resolved or released
\* since, it gives the bytes of its entry, the same from one step to the next.
C11_ContentIsOwned ==
  /\ [](\A i \in DOMAIN records :
          records[i].content.some =>
            ContentBytes(records[i].content, iter.archive) = archive[i].data)
  /\ [][\A i \in DOMAIN records :
          i \in DOMAIN records' =>
            ContentBytes(records'[i].content, iter'.archive)
              = ContentBytes(records[i].content, iter.archive)]_vars

\* C11 witness: a record with bytes was delivered, the scratch buffer has
\* since been given to another block or freed, and the session is torn down.
C11_Witness ==
  /\ phase = "dropped" /\ torn = 1
  /\ \E i \in DOMAIN records :
       /\ records[i].content.bytes # <<>>
       /\ iter.archive.block_index # archive[i].folder

\* C13: a poll whose next() fails, in the name resolution or in the
\* extraction, leaves current_pos where it was and delivers no record.
C13_FailedAdvanceKeepsCursor ==
  [][(last'.t = "err" /\ phase' \in {"Stream", "crashed"})
       => /\ iter'.current_pos = iter.current_pos
          /\ records' = records]_vars

\* C13 witness: next() has failed on an entry after the first, with the
\* cursor still on that entry.
C13_Witness ==
  /\ phase = "Stream" /\ last.t = "err"
  /\ last.err \in {"AllocError", "EncodingError", "ExtractError"}
  /\ iter.current_pos >= 1
  /\ iter.current_pos = Len(records)
  /\ iter.current_pos < files_count(archive)

\* C14 (as claimed): next() makes no extraction call for a directory: the
\* poll that delivers the record of a directory has not called the extract
\* primitive.
C14_NoExtractForDirectory ==
  (phase = "Stream" /\ last.t = "item" /\ last.file.is_dir)
    => \A i \in DOMAIN calls : calls[i] # "SzArEx_Extract"

\* The entries of the first upTo positions, by their index in archive.
Touched(upTo) == { i \in DOMAIN archive : i <= upTo }

CountOf(seq, c) == Cardinality({ i \in DOMAIN seq : seq[i] = c })

\* C15: production is demand-driven.  After k polls of a stream the cursor
\* is at most k and at most k records were delivered; the name buffer and
\* the block cache hold nothing of an entry beyond the k-th, so no entry
\* was named or extracted before it was asked for; and one poll moves the
\* cursor by at most one and calls the extract primitive at most once.
C15_DemandDriven ==
  /\ [](/\ iter.current_pos <= pulls
        /\ Len(records) <= pulls
        /\ \/ iter.archive.temp_size = 0
           \/ \E i \in Touched(pulls) :
                iter.archive.temp_size = GetFileNameLen(archive, i - 1)
        /\ \/ iter.archive.block_index = SentinelBlock
           \/ \E i \in Touched(pulls) :
                iter.archive.block_index = archive[i].folder)
  /\ [][/\ iter'.current_pos <= iter.current_pos + 1
        /\ Len(records') <= Len(records) + 1
        /\ CountOf(calls', "SzArEx_Extract") <= 1
        /\ CountOf(calls', "SzArEx_GetFileNameUtf16") <= 2]_vars

\* Three polls delivered three records, the third from another folder
\* than the first.
C15_Witness ==
  /\ phase = "Stream" /\ pulls = 3
  /\ iter.current_pos = 3 /\ Len(records) = 3
  /\ archive[1].folder # archive[3].folder
  /\ iter.archive.block_index = archive[3].folder

\* The solid-block cache of a session: the three fields SzArEx_Extract
\* is handed.
Cache(oa) == <<oa.block_index, oa.out_buffer, oa.out_bytes, oa.out_buffer_size>>

\* C16: the block cache starts as (sentinel, null, 0) and only the extract
\* primitive changes it.  A session whose first poll made no extract call
\* still has the starting cache; a step of a stream that makes no extract
\* call leaves the cache as it was; and name resolution of the entry under
\* the cursor, whatever its outcome, hands the cache on unchanged to the
\* extract call that follows.
C16_CacheOnlyByExtract ==
  /\ []((phase = "Stream" /\ pulls = 1 /\ \A i \in DOMAIN calls : calls[i] # "SzArEx_Extract")
          => Cache(iter.archive) = <<SentinelBlock, "null", <<>>, 0>>)
  /\ []((phase = "Stream" /\ iter.current_pos < files_count(archive))
          => \A allocOk \in BOOLEAN, nullRead \in NullReads :
               Cache(read_file_name(iter, archive, iter.current_pos,
                                    allocOk, nullRead).it.archive)
                 = Cache(iter.archive))
  /\ [][(phase' # "Future" /\ \A i \in DOMAIN calls' : calls'[i] # "SzArEx_Extract")
          => Cache(iter'.archive) = Cache(iter.archive)]_vars

\* A second poll failed on the name of its entry and left the block the
\* first poll decoded in the cache.
C16_Witness ==
  /\ phase = "Stream" /\ pulls = 2 /\ Len(records) = 1
  /\ last.t = "err" /\ last.err \in {"AllocError", "EncodingError"}
  /\ iter.archive.out_buffer = "live"
  /\ iter.archive.block_index = archive[1].folder

\* C17: teardown releases every buffer of the session.  Once the teardown
\* of an opened session has run, neither the scratch buffer of the block
\* cache nor the name buffer is a live allocation.
C17_TeardownFreesBuffers ==
  (opened /\ torn >= 1)
    => /\ iter.archive.out_buffer # "live"
       /\ iter.archive.temp # "live"

SetMax(S) == IF S = {} THEN 0 ELSE CHOOSE x \in S : \A y \in S : y <= x

\* The largest name length among the entries of the first upTo positions.
MaxNameLen(upTo) ==
  SetMax({ GetFileNameLen(archive, i - 1) : i \in Touched(upTo) })

\* C18: the capacity of the name buffer only grows.  Within a stream
\* temp_size never decreases; when an entry was delivered it is the largest
\* name length among the entries up to that one, and when the name of the
\* entry under the cursor was resolved it is the largest up to the cursor;
\* and a name resolution allocates exactly when the length it needs
\* exceeds the capacity, which then becomes that length.
C18_NameBufferOnlyGrows ==
  /\ []((phase = "Stream" /\ last.t = "item")
          => iter.archive.temp_size = MaxNameLen(iter.current_pos))
  /\ []((phase = "Stream" /\ last.t = "err" /\ last.err = "ExtractError")
          => iter.archive.temp_size = MaxNameLen(iter.current_pos + 1))
  /\ []((phase = "Stream" /\ iter.current_pos < files_count(archive))
          => \A allocOk \in BOOLEAN, nullRead \in NullReads :
               LET len == GetFileNameLen(archive, iter.current_pos)
                   old == iter.archive.temp_size
                   r   == read_file_name(iter, archive, iter.current_pos,
                                         allocOk, nullRead)
               IN /\ r.it.archive.temp_size = SetMax({old, len})
                  /\ (\E i \in DOMAIN r.calls : r.calls[i] = "SzAlloc") <=> len > old)
  /\ [][phase' # "Future" => iter'.archive.temp_size >= iter.archive.temp_size]_vars

\* The third entry was delivered from the buffer the second one needed: its
\* name is shorter, and the poll allocated nothing.
C18_Witness ==
  /\ phase = "Stream" /\ last.t = "item" /\ iter.current_pos = 3
  /\ GetFileNameLen(archive, 2) < GetFileNameLen(archive, 1)
  /\ GetFileNameLen(archive, 0) < GetFileNameLen(archive, 1)
  /\ iter.archive.temp_size = GetFileNameLen(archive, 1)
  /\ \A i \in DOMAIN calls : calls[i] # "SzAlloc"

\* C19: the cursor.  It lies between 0 and the number of entries; after
\* the first poll of a session it is 1 if that poll delivered a record and
\* 0 otherwise, so it started at 0; within a stream it changes only by +1
\* and only in a poll that delivers a record; and a poll of an exhausted
\* iterator returns the end of the stream, calls nothing and leaves the
\* iterator as it was.
C19_CursorBounds ==
  /\ [](0 <= iter.current_pos /\ iter.current_pos <= Len(archive))
  /\ []((phase = "Stream" /\ pulls = 1)
          => iter.current_pos = IF last.t = "item" THEN 1 ELSE 0)
  /\ [][(phase' # "Future" /\ iter'.current_pos # iter.current_pos)
          => /\ iter'.current_pos = iter.current_pos + 1
             /\ last'.t = "item"
             /\ last'.file.pos = iter.current_pos]_vars
  /\ [][(phase = "Stream" /\ phase' = "Stream"
            /\ iter.current_pos = Len(archive))
          => /\ last'.t = "end"
             /\ calls' = <<>>
             /\ iter' = iter
             /\ records' = records]_vars

\* The only entry was delivered and two more polls returned the end.
C19_Witness ==
  /\ phase = "Stream" /\ pulls = 3 /\ last.t = "end"
  /\ Len(archive) = 1 /\ iter.current_pos = 1 /\ Len(records) = 1

\* C20: the recorded capacity matches the name buffer.  In a session that
\* is being iterated, temp_size > 0 means temp is a live allocation with
\* room for temp_size UTF-16 units of two bytes.
C20_CapacityMatchesBuffer ==
  (phase = "Stream" /\ iter.archive.temp_size > 0)
    => /\ iter.archive.temp = "live"
       /\ iter.archive.temp_alloc >= iter.archive.temp_size * 2

\* The sessions that are open, and the addresses a session points to.
Live == { s \in Slots : sess[s].st = "open" }

Pointers(se) == {se.ctx, se.temp, se.out} \ {0}

\* C12: a native context and its two buffers belong to one session.  No
\* two open sessions point to a common address; what an open session
\* points to is allocated, its context never null; and at most one call
\* is under way on a session, made by the thread that holds it.
C12_ExclusiveOwnership ==
  /\ \A s1, s2 \in Live :
       s1 # s2 => Pointers(sess[s1]) \cap Pointers(sess[s2]) = {}
  /\ \A s \in Live :
       /\ sess[s].ctx # 0
       /\ Pointers(sess[s]) \subseteq heap
       /\ sess[s].temp # 0 => sess[s].temp \notin {sess[s].ctx, sess[s].out}
       /\ sess[s].out # 0 => sess[s].out # sess[s].ctx
  /\ \A s \in Slots :
       /\ Cardinality(sess[s].inCall) <= 1
       /\ sess[s].inCall \subseteq {sess[s].holder}

\* Two sessions, each with both buffers, each inside a call on its own
\* thread, the second one past a replacement of its buffers.
C12_Witness ==
  /\ Live = Slots
  /\ sess[1].inCall # {} /\ sess[2].inCall # {}
  /\ sess[1].holder # sess[2].holder
  /\ sess[1].temp # 0 /\ sess[1].out # 0
  /\ sess[2].temp # 0 /\ sess[2].out # 0
  /\ sess[2].it.current_pos = 2
====
